---- MODULE Spec2Model ----
(***************************************************************************)
(* Phone Finder API (src/app-2.py): the in-memory catalog phone_data and   *)
(* the POST /api/recommend handler.                                        *)
(*                                                                         *)
(* Numbers.  A rating r is held as the integer RatingScale * r (4.5 is 9)  *)
(* and a Total_Score t as the integer ScoreScale * t (2.0 is 64).  All     *)
(* ratings of the model are multiples of 0.5 and all weights are small     *)
(* integers, so every product, sum and division by 16 that the handler     *)
(* does in binary floating point is exact and the integers below are the   *)
(* handler's values.  NaN ratings are outside the modelled domain.         *)
(*                                                                         *)
(* Text.  A string is a sequence of one-character strings, so that         *)
(* strip() and lower() are computed and not assumed.                       *)
(*                                                                         *)
(* Specifications.  Spec: one request on a freshly loaded catalog.         *)
(* HistSpec: MaxCalls requests one after the other on smaller catalogs.    *)
(* ConcSpec: two clients with one request each, both possibly in flight.   *)
(***************************************************************************)
EXTENDS Integers, Sequences, FiniteSets, TLC

VARIABLES phone_data, reqs, left, clients

vars == <<phone_data, reqs, left, clients>>

----------------------------------------------------------------------------
(* Bounds of the model *)

(* one request on a freshly loaded catalog: rows, priorities of a request *)
MaxPhones == 4

MaxPrio == 2

(* requests one after the other: their number, rows, priorities of each *)
MaxCalls == 2

MaxHistPhones == 3

MaxHistPrio == 1

(* two requests in flight: rows, priorities of each *)
MaxConcPhones == 2

MaxConcPrio == 1

(* Units *)

RatingScale == 2

Normalizer == 16

ScoreScale == RatingScale * Normalizer

----------------------------------------------------------------------------
(* Values *)

Num(n) == [kind |-> "num", num |-> n, text |-> ""]

Txt(s) == [kind |-> "str", num |-> 0, text |-> s]

StrCat(chars) == [kind |-> "str", chars |-> chars, num |-> 0]

IntCat(n) == [kind |-> "int", chars |-> <<>>, num |-> n]

Phone(category, model, brand, processor, battery, camera) ==
    ("Category" :> category) @@ ("Brand" :> "Acme") @@ ("Model" :> model) @@
    ("Brand Rating (5)" :> brand) @@ ("Processor Rating (5)" :> processor) @@
    ("Battery Rating (5)" :> battery) @@ ("Camera Rating (5)" :> camera)

(* The rows the spreadsheet may hold, in sheet order. *)
Sheet ==
    << Phone(IntCat(0), "F0", Num(8), Num(8), Num(8), Num(8)),
       Phone(StrCat(<<"a">>), "P1", Num(8), Num(8), Num(8), Txt("4.0")),
       Phone(StrCat(<<" ", "A">>), "P2", Num(7), Num(9), Num(7), Num(9)),
       Phone(StrCat(<<"a", " ">>), "P3", Num(6), Num(8), Num(10), Num(8)),
       Phone(StrCat(<<"A">>), "P4", Num(8), Num(8), Num(8), Num(8)),
       Phone(StrCat(<<"a">>), "P5", Num(8), Num(8), Num(8), Txt("N/A")),
       Phone(StrCat(<<"b">>), "P6", Num(10), Txt("N/A"), Num(8), Num(8)),
       Phone(StrCat(<<>>), "P7", Num(9), Num(8), Num(8), Num(7)) >>

RECURSIVE Picks(_, _)
(* The sub-sequences of Sheet[k..] of at most n rows. *)
Picks(k, n) ==
    IF k > Len(Sheet) THEN {<<>>}
    ELSE Picks(k + 1, n) \cup
         (IF n = 0 THEN {} ELSE {<<Sheet[k]>> \o t : t \in Picks(k + 1, n - 1)})

(* phone_df.to_dict(orient="records"), then Total_Score = 0.0 on every row *)
Load(rows) == [i \in 1..Len(rows) |-> rows[i] @@ ("Total_Score" :> 0)]

Budgets == { <<" ", "A">>, <<"z">>, <<"0">> }

Priority(feature, rank) == [feature |-> feature, rank |-> rank]

PriorityPool ==
    { Priority("battery", 1), Priority("camera", 2),
      Priority("brand", 6), Priority("gps", 1) }

RECURSIVE SeqsUpTo(_, _)
SeqsUpTo(S, n) ==
    IF n = 0 THEN {<<>>}
    ELSE LET shorter == SeqsUpTo(S, n - 1)
         IN  shorter \cup {Append(t, x) : t \in shorter, x \in S}

(* the priorities the two concurrent clients choose from *)
ConcPool == { Priority("battery", 1), Priority("camera", 2) }

(* the request bodies with at most n priorities out of pool *)
Requests(pool, n) == [budget : Budgets, priorities : SeqsUpTo(pool, n)]

(* the catalogs of at most n rows *)
Catalogs(n) == {Load(rows) : rows \in Picks(1, n)}

----------------------------------------------------------------------------
(* str.lower(), str.strip(), str(), float() *)

(* the capitals of the model's texts *)
LowerChar(c) ==
    CASE c = "A" -> "a"
      [] c = "M" -> "m"
      [] c = "R" -> "r"
      [] c = "F" -> "f"
      [] OTHER -> c

Lower(s) == [i \in 1..Len(s) |-> LowerChar(s[i])]

RECURSIVE LStrip(_)
LStrip(s) == IF s # <<>> /\ Head(s) = " " THEN LStrip(Tail(s)) ELSE s

RECURSIVE RStrip(_)
RStrip(s) ==
    IF s # <<>> /\ s[Len(s)] = " " THEN RStrip(SubSeq(s, 1, Len(s) - 1)) ELSE s

Strip(s) == RStrip(LStrip(s))

Digit(n) == <<"0", "1", "2", "3", "4", "5", "6", "7", "8", "9">>[n + 1]

(* str(phone["Category"]); the numeric categories of the model are 0..9 *)
Str(c) == IF c.kind = "str" THEN c.chars ELSE <<Digit(c.num)>>

(* bool(phone["Category"]) *)
Truthy(c) == IF c.kind = "str" THEN c.chars # <<>> ELSE c.num # 0

(* float(x): the value, or the ValueError of a text that is no number *)
Float(x) ==
    CASE x.kind = "num" -> [ok |-> TRUE, val |-> x.num]
      [] x.kind = "str" /\ x.text = "4.0" -> [ok |-> TRUE, val |-> 8]
      [] x.kind = "str" /\ x.text = "4.5" -> [ok |-> TRUE, val |-> 9]
      [] OTHER -> [ok |-> FALSE, val |-> 0]

----------------------------------------------------------------------------
(* The steps of recommend(request) *)

RatingKeys ==
    << "Brand Rating (5)", "Processor Rating (5)",
       "Battery Rating (5)", "Camera Rating (5)" >>

MidLow == 7

MidHigh == 9

TopK == 3

FallbackLabel ==
    StrCat(<< "M", "i", "d", "-", "R", "a", "n", "g", "e", " ",
              "(", "F", "a", "l", "l", "b", "a", "c", "k", ")" >>)

Indices(data) == [i \in 1..Len(data) |-> i]

Range(s) == {s[i] : i \in DOMAIN s}

(* the condition of the first comprehension *)
CategoryMatches(phone, budget_normalized) ==
    /\ "Category" \in DOMAIN phone
    /\ phone["Category"].kind \in {"str", "int", "float"}
    /\ Lower(Strip(Str(phone["Category"]))) = budget_normalized

RECURSIVE MidRange_open(_, _)
(* 3.5 < x < 4.5 *)
MidRange_open(phone, k) ==
    IF k > Len(RatingKeys) THEN "yes"
    ELSE LET f == Float(IF RatingKeys[k] \in DOMAIN phone
                        THEN phone[RatingKeys[k]] ELSE Num(0))
         IN  IF ~f.ok THEN "raise"
             ELSE IF MidLow < f.val /\ f.val < MidHigh
                  THEN MidRange_open(phone, k + 1)
                  ELSE "no"

RECURSIVE MidRange(_, _)
(* all(3.5 <= float(phone.get(key, 0)) <= 4.5 for key in ...), from key k on:
   all() stops at the first key out of range, float() may raise before that *)
MidRange(phone, k) ==
    IF k > Len(RatingKeys) THEN "yes"
    ELSE LET f == Float(IF RatingKeys[k] \in DOMAIN phone
                        THEN phone[RatingKeys[k]] ELSE Num(0))
         IN  IF ~f.ok THEN "raise"
             ELSE IF MidLow <= f.val /\ f.val <= MidHigh
                  THEN MidRange(phone, k + 1)
                  ELSE "no"

(* the fallback comprehension: a ValueError anywhere aborts it *)
Fallback(data) ==
    IF \E i \in DOMAIN data : MidRange(data[i], 1) = "raise"
    THEN [ok |-> FALSE, phones |-> <<>>]
    ELSE [ok |-> TRUE,
          phones |-> SelectSeq(Indices(data),
                               LAMBDA i : MidRange(data[i], 1) = "yes")]

(* filtered_phones, as catalog indices (the list holds the catalog's dicts) *)
FilterPhones(data, budget) ==
    LET budget_normalized == Lower(Strip(budget))
        primary == SelectSeq(Indices(data),
                             LAMBDA i : CategoryMatches(data[i], budget_normalized))
    IN  IF primary # <<>> THEN [ok |-> TRUE, phones |-> primary]
        ELSE Fallback(data)

(* weight = rank *)
Weight_rank(rank) == rank

Weight(rank) == 5 - rank

FeatureKey(feature) ==
    CASE feature = "brand" -> "Brand Rating (5)"
      [] feature = "processor" -> "Processor Rating (5)"
      [] feature = "battery" -> "Battery Rating (5)"
      [] feature = "camera" -> "Camera Rating (5)"
      [] OTHER -> ""

RECURSIVE ScoreLoop(_, _, _, _)
(* the inner loop over request.priorities, from priority k on *)
ScoreLoop(phone, priorities, k, score) ==
    IF k > Len(priorities) THEN [ok |-> TRUE, val |-> score]
    ELSE LET key == FeatureKey(priorities[k].feature)
             weight == Weight(priorities[k].rank)
         IN  IF key = "" THEN ScoreLoop(phone, priorities, k + 1, score)
             ELSE IF key \notin DOMAIN phone THEN [ok |-> FALSE, val |-> 0]
             ELSE LET f == Float(phone[key])
                  IN  IF f.ok
                      THEN ScoreLoop(phone, priorities, k + 1, score + f.val * weight)
                      ELSE [ok |-> FALSE, val |-> 0]

(* score / 16, in units of 1/ScoreScale *)
TotalScore(score) == (score * ScoreScale) \div (RatingScale * Normalizer)

RECURSIVE InsertDesc_unstable(_, _, _)
(* x goes before the phones of equal score *)
InsertDesc_unstable(data, s, x) ==
    IF s = <<>> THEN <<x>>
    ELSE IF data[Head(s)]["Total_Score"] > data[x]["Total_Score"]
         THEN <<Head(s)>> \o InsertDesc_unstable(data, Tail(s), x)
         ELSE <<x>> \o s

RECURSIVE InsertDesc(_, _, _)
(* x goes behind every phone whose score is at least its own *)
InsertDesc(data, s, x) ==
    IF s = <<>> THEN <<x>>
    ELSE IF data[Head(s)]["Total_Score"] >= data[x]["Total_Score"]
         THEN <<Head(s)>> \o InsertDesc(data, Tail(s), x)
         ELSE <<x>> \o s

RECURSIVE SortFrom(_, _, _, _)
SortFrom(data, phones, k, acc) ==
    IF k > Len(phones) THEN acc
    ELSE SortFrom(data, phones, k + 1, InsertDesc(data, acc, phones[k]))

(* sorted(filtered_phones, key=Total_Score, reverse=True): stable *)
Sorted(data, phones) == SortFrom(data, phones, 1, <<>>)

Take(s, n) == SubSeq(s, 1, IF Len(s) < n THEN Len(s) ELSE n)

(* the label decided phone by phone *)
BudgetLabel_own(data, filtered_phones, idx) ==
    IF Truthy(data[idx]["Category"]) THEN data[idx]["Category"] ELSE FallbackLabel

(* the "Budget" entry of a formatted phone *)
BudgetLabel(data, filtered_phones, idx) ==
    IF idx \in Range(filtered_phones)
       /\ Truthy(data[filtered_phones[1]]["Category"])
    THEN data[idx]["Category"]
    ELSE FallbackLabel

FormatOk(phone) == \A k \in DOMAIN RatingKeys : Float(phone[RatingKeys[k]]).ok

FormatPhone(data, filtered_phones, idx) ==
    [Brand |-> data[idx]["Brand"],
     Model |-> data[idx]["Model"],
     Budget |-> BudgetLabel(data, filtered_phones, idx),
     Brand_Rating |-> Float(data[idx]["Brand Rating (5)"]).val,
     Processor_Rating |-> Float(data[idx]["Processor Rating (5)"]).val,
     Battery_Rating |-> Float(data[idx]["Battery Rating (5)"]).val,
     Camera_Rating |-> Float(data[idx]["Camera Rating (5)"]).val,
     Total_Score |-> data[idx]["Total_Score"]]

----------------------------------------------------------------------------
(* A request: where its handler stands and what it holds.  Two fields are
   history only and no step reads them: overlap (another request was in
   flight at the same time) and stale (the Total_Score column as it stood
   when the request arrived). *)

NoResponse == [status |-> "none", count |-> 0, results |-> <<>>]

(* HTTPException(status_code=500): no result list *)
ErrorResponse == [status |-> "error", count |-> 0, results |-> <<>>]

IdleReq ==
    [pc |-> "idle", budget |-> <<>>, priorities |-> <<>>,
     filtered_phones |-> <<>>, next |-> 0, sorted_phones |-> <<>>,
     response |-> NoResponse, raisedAt |-> "", overlap |-> FALSE, stale |-> <<>>]

NewReq(budget, priorities) ==
    [IdleReq EXCEPT !.pc = "filter", !.budget = budget, !.priorities = priorities]

Raise(r, where) ==
    [r EXCEPT !.pc = "error", !.response = ErrorResponse, !.raisedAt = where]

(* lines 80-108 *)
DoFilter(data, r) ==
    LET f == FilterPhones(data, r.budget)
    IN  IF ~f.ok THEN Raise(r, "filter")
        ELSE IF f.phones = <<>>
        THEN [r EXCEPT !.pc = "done",
                       !.response = [status |-> "ok", count |-> 0, results |-> <<>>]]
        ELSE [r EXCEPT !.pc = "score", !.filtered_phones = f.phones, !.next = 1]

(* phone["Total_Score"] += score / 16 *)
DoScore_accumulate(data, r) ==
    LET idx == r.filtered_phones[r.next]
        s == ScoreLoop(data[idx], r.priorities, 1, 0)
    IN  IF ~s.ok THEN [data |-> data, req |-> Raise(r, "score")]
        ELSE [data |-> [data EXCEPT ![idx]["Total_Score"] = @ + TotalScore(s.val)],
              req |-> [r EXCEPT !.next = r.next + 1,
                                !.pc = IF r.next = Len(r.filtered_phones)
                                       THEN "sort" ELSE "score"]]

(* one turn of the loop of lines 111-127 *)
DoScore(data, r) ==
    LET idx == r.filtered_phones[r.next]
        s == ScoreLoop(data[idx], r.priorities, 1, 0)
    IN  IF ~s.ok THEN [data |-> data, req |-> Raise(r, "score")]
        ELSE [data |-> [data EXCEPT ![idx]["Total_Score"] = TotalScore(s.val)],
              req |-> [r EXCEPT !.next = r.next + 1,
                                !.pc = IF r.next = Len(r.filtered_phones)
                                       THEN "sort" ELSE "score"]]

(* line 130 *)
DoSort(data, r) ==
    [r EXCEPT !.pc = "format",
              !.sorted_phones = Take(Sorted(data, r.filtered_phones), TopK)]

(* lines 134-151 *)
DoFormat(data, r) ==
    IF \E k \in DOMAIN r.sorted_phones : ~FormatOk(data[r.sorted_phones[k]])
    THEN Raise(r, "format")
    ELSE LET formatted_phones ==
                 [k \in DOMAIN r.sorted_phones |->
                     FormatPhone(data, r.filtered_phones, r.sorted_phones[k])]
         IN  [r EXCEPT !.pc = "done",
                       !.response = [status |-> "ok",
                                     count |-> Len(formatted_phones),
                                     results |-> formatted_phones]]

Completed(r) == r.pc \in {"done", "error"}

Running(r) == r.pc \in {"score", "sort", "format"}

InFlight(r) == r.pc \in {"filter", "score", "sort", "format"}

(* def recommend, run on worker threads *)
LoopFree_threads(s) == TRUE

(* async def recommend has no await: once the event loop has started a
   handler, no other handler runs until it has returned *)
LoopFree(s) == \A t \in DOMAIN reqs : t # s => ~Running(reqs[t])

----------------------------------------------------------------------------
(* Actions *)

Arrive(s) ==
    /\ reqs[s].pc = "idle"
    /\ left > 0
    /\ \E request \in Requests(clients.pool, clients.longest) :
          LET together == \E t \in DOMAIN reqs : InFlight(reqs[t])
          IN  reqs' = [t \in DOMAIN reqs |->
                         IF t = s
                         THEN [NewReq(request.budget, request.priorities) EXCEPT
                                  !.overlap = together,
                                  !.stale = [i \in DOMAIN phone_data |->
                                                phone_data[i]["Total_Score"]]]
                         ELSE IF InFlight(reqs[t])
                              THEN [reqs[t] EXCEPT !.overlap = TRUE]
                              ELSE reqs[t]]
    /\ left' = left - 1
    /\ UNCHANGED <<phone_data, clients>>

Filter(s) ==
    /\ reqs[s].pc = "filter"
    /\ LoopFree(s)
    /\ reqs' = [reqs EXCEPT ![s] = DoFilter(phone_data, reqs[s])]
    /\ UNCHANGED <<phone_data, left, clients>>

Score(s) ==
    /\ reqs[s].pc = "score"
    /\ LoopFree(s)
    /\ LET step == DoScore(phone_data, reqs[s])
       IN  /\ phone_data' = step.data
           /\ reqs' = [reqs EXCEPT ![s] = step.req]
    /\ UNCHANGED <<left, clients>>

Sort(s) ==
    /\ reqs[s].pc = "sort"
    /\ LoopFree(s)
    /\ reqs' = [reqs EXCEPT ![s] = DoSort(phone_data, reqs[s])]
    /\ UNCHANGED <<phone_data, left, clients>>

Format(s) ==
    /\ reqs[s].pc = "format"
    /\ LoopFree(s)
    /\ reqs' = [reqs EXCEPT ![s] = DoFormat(phone_data, reqs[s])]
    /\ UNCHANGED <<phone_data, left, clients>>

(* the response has been sent; the server takes the next request *)
Return(s) ==
    /\ Completed(reqs[s])
    /\ reqs' = [reqs EXCEPT ![s] = IdleReq]
    /\ UNCHANGED <<phone_data, left, clients>>

(* one request on a freshly loaded catalog *)
Init ==
    /\ phone_data \in Catalogs(MaxPhones)
    /\ reqs = [s \in {1} |-> IdleReq]
    /\ left = 1
    /\ clients = [pool |-> PriorityPool, longest |-> MaxPrio]

(* MaxCalls requests, one after the other *)
HistInit ==
    /\ phone_data \in Catalogs(MaxHistPhones)
    /\ reqs = [s \in {1} |-> IdleReq]
    /\ left = MaxCalls
    /\ clients = [pool |-> PriorityPool, longest |-> MaxHistPrio]

(* two clients, one request each *)
ConcInit ==
    /\ phone_data \in Catalogs(MaxConcPhones)
    /\ reqs = [s \in {1, 2} |-> IdleReq]
    /\ left = Cardinality(DOMAIN reqs)
    /\ clients = [pool |-> ConcPool, longest |-> MaxConcPrio]

Next ==
    \E s \in DOMAIN reqs :
        \/ Arrive(s)
        \/ Filter(s)
        \/ Score(s)
        \/ Sort(s)
        \/ Format(s)
        \/ Return(s)

Spec == Init /\ [][Next]_vars

HistSpec == HistInit /\ [][Next]_vars

ConcSpec == ConcInit /\ [][Next]_vars

----------------------------------------------------------------------------
(* The response of a call made alone on a freshly loaded catalog *)

Fresh(data) == [i \in DOMAIN data |-> [data[i] EXCEPT !["Total_Score"] = 0]]

RECURSIVE Run(_, _)
Run(data, r) ==
    CASE r.pc = "filter" -> Run(data, DoFilter(data, r))
      [] r.pc = "score" -> LET step == DoScore(data, r) IN Run(step.data, step.req)
      [] r.pc = "sort" -> Run(data, DoSort(data, r))
      [] r.pc = "format" -> Run(data, DoFormat(data, r))
      [] OTHER -> r

Alone(data, budget, priorities) == Run(Fresh(data), NewReq(budget, priorities))

----------------------------------------------------------------------------
(* Vocabulary of the properties *)

Done(r) == r.pc = "done"

Min(a, b) == IF a < b THEN a ELSE b

(* the catalog records whose trimmed, lower-cased category is the trimmed,
   lower-cased budget *)
Matching(data, budget) ==
    {i \in DOMAIN data : Lower(Strip(Str(data[i]["Category"]))) = Lower(Strip(budget))}

Numeric(x) == Float(x).ok

(* the catalog records whose four ratings are numbers of [3.5, 4.5] *)
AllMidRange(data) ==
    {i \in DOMAIN data :
        \A k \in DOMAIN RatingKeys :
            /\ Numeric(data[i][RatingKeys[k]])
            /\ Float(data[i][RatingKeys[k]]).val \in 7..9}

Candidates(data, budget) ==
    IF Matching(data, budget) # {} THEN Matching(data, budget) ELSE AllMidRange(data)

Increasing(s) == \A k \in DOMAIN s : \A l \in DOMAIN s : k < l => s[k] < s[l]

RECURSIVE SumSeq(_)
SumSeq(s) == IF s = <<>> THEN 0 ELSE Head(s) + SumSeq(Tail(s))

(* the sum of 5 - rank over the priorities that name the feature *)
FeatureWeight(priorities, feature) ==
    SumSeq([k \in DOMAIN priorities |->
               IF priorities[k].feature = feature THEN 5 - priorities[k].rank ELSE 0])

(* the sum over the priorities of rating_for(feature) * (5 - rank), from the
   ratings a formatted phone carries *)
WeightedSum(result, priorities) ==
      result.Brand_Rating * FeatureWeight(priorities, "brand")
    + result.Processor_Rating * FeatureWeight(priorities, "processor")
    + result.Battery_Rating * FeatureWeight(priorities, "battery")
    + result.Camera_Rating * FeatureWeight(priorities, "camera")

SameOutcome(r, a) ==
    /\ r.pc = a.pc
    /\ r.response = a.response
    /\ r.sorted_phones = a.sorted_phones

----------------------------------------------------------------------------
(* C1: recommend never mutates the catalog: every stored record, its
   Total_Score included, is as the startup load left it (Total_Score 0.0),
   whatever calls have been made. *)
C1_CatalogNeverMutated == phone_data = Fresh(phone_data)

(* C2: a later call answers as it would have answered had it been the first
   call on a freshly loaded catalog: same outcome (result or error), same
   records in the same order, same Total_Score, whatever the earlier calls
   were. *)
C2_NoSequentialLeak ==
    \A s \in DOMAIN reqs :
        Completed(reqs[s]) =>
            SameOutcome(reqs[s],
                        Alone(phone_data, reqs[s].budget, reqs[s].priorities))

(* C2 witness: a second call has returned a phone on which the first call
   had left another, non-zero Total_Score. *)
C2_Witness ==
    \E s \in DOMAIN reqs :
        /\ Done(reqs[s])
        /\ \E k \in DOMAIN reqs[s].sorted_phones :
              /\ reqs[s].stale[reqs[s].sorted_phones[k]] # 0
              /\ reqs[s].stale[reqs[s].sorted_phones[k]]
                     # reqs[s].response.results[k].Total_Score

(* C3: once the filter has run, the candidates are exactly the records
   matching the budget (trimmed, lower-cased) if there are any, and
   otherwise exactly the records whose four ratings all lie in [3.5, 4.5],
   bounds included; they are held in catalog order and every returned record
   is one of them. *)
C3_CandidateSelection ==
    \A s \in DOMAIN reqs :
        LET r == reqs[s]
            C == Candidates(phone_data, r.budget)
        IN  (r.pc \in {"score", "sort", "format", "done", "error"}
                /\ r.raisedAt # "filter") =>
                /\ Range(r.filtered_phones) = C
                /\ Increasing(r.filtered_phones)
                /\ Range(r.sorted_phones) \subseteq C
                /\ Done(r) =>
                      /\ Len(r.response.results) = Len(r.sorted_phones)
                      /\ \A k \in DOMAIN r.response.results :
                            r.response.results[k].Model
                                = phone_data[r.sorted_phones[k]]["Model"]

(* C3 witness: nothing matched the budget and the fallback has returned a
   record with ratings on both bounds, 3.5 and 4.5. *)
C3_Witness ==
    \E s \in DOMAIN reqs :
        /\ Done(reqs[s])
        /\ Matching(phone_data, reqs[s].budget) = {}
        /\ \E k \in DOMAIN reqs[s].response.results :
              /\ reqs[s].response.results[k].Brand_Rating = 7
              /\ reqs[s].response.results[k].Processor_Rating = 9

(* C4: for every returned record, 16 * Total_Score is the sum over the
   priorities of rating_for(feature) * (5 - rank), an unknown feature adding
   0, whatever the number of priorities; [(battery,1),(camera,2)] on
   battery 5, camera 4 gives 2.0. *)
C4_ScoreFormula ==
    \A s \in DOMAIN reqs :
        Done(reqs[s]) =>
            \A k \in DOMAIN reqs[s].response.results :
                LET res == reqs[s].response.results[k]
                IN  /\ 16 * res.Total_Score * RatingScale
                          = ScoreScale * WeightedSum(res, reqs[s].priorities)
                    /\ (/\ reqs[s].priorities
                              = <<Priority("battery", 1), Priority("camera", 2)>>
                        /\ res.Battery_Rating = 5 * RatingScale
                        /\ res.Camera_Rating = 4 * RatingScale)
                       => res.Total_Score = 2 * ScoreScale

(* C4 witness: the worked example has been returned. *)
C4_Witness ==
    \E s \in DOMAIN reqs :
        /\ Done(reqs[s])
        /\ reqs[s].priorities = <<Priority("battery", 1), Priority("camera", 2)>>
        /\ \E k \in DOMAIN reqs[s].response.results :
              /\ reqs[s].response.results[k].Battery_Rating = 5 * RatingScale
              /\ reqs[s].response.results[k].Camera_Rating = 4 * RatingScale
              /\ reqs[s].response.results[k].Total_Score = 2 * ScoreScale

(* C4 second witness case: an unknown feature and a rank outside 1..4 *)
C4_WitnessOdd ==
    \E s \in DOMAIN reqs :
        /\ Done(reqs[s])
        /\ reqs[s].priorities = <<Priority("gps", 1), Priority("brand", 6)>>
        /\ reqs[s].response.count > 0

(* C5: the returned list is non-increasing in Total_Score; no candidate left
   out scores strictly more than a returned one; of two candidates with the
   same score the one earlier in the catalog comes first, and is the one
   returned if only one of them is. *)
C5_StableDescending ==
    \A s \in DOMAIN reqs :
        Done(reqs[s]) =>
            LET r == reqs[s]
                res == r.response.results
                out == Range(r.filtered_phones) \ Range(r.sorted_phones)
            IN  /\ \A k \in DOMAIN res : \A l \in DOMAIN res :
                      k < l =>
                          /\ res[k].Total_Score >= res[l].Total_Score
                          /\ res[k].Total_Score = res[l].Total_Score
                                => r.sorted_phones[k] < r.sorted_phones[l]
                /\ \A j \in out : \A k \in DOMAIN res :
                      /\ phone_data[j]["Total_Score"] <= res[k].Total_Score
                      /\ phone_data[j]["Total_Score"] = res[k].Total_Score
                            => r.sorted_phones[k] < j

(* C5 witness: four candidates, three returned out of catalog order, with a
   strict drop, a tie inside the result and a tie with the one left out. *)
C5_Witness ==
    \E s \in DOMAIN reqs :
        LET r == reqs[s]
            res == r.response.results
        IN  /\ Done(r)
            /\ Len(r.filtered_phones) = 4
            /\ Len(res) = 3
            /\ res[1].Total_Score > res[2].Total_Score
            /\ res[2].Total_Score = res[3].Total_Score
            /\ r.sorted_phones[1] > r.sorted_phones[2]
            /\ \E j \in Range(r.filtered_phones) \ Range(r.sorted_phones) :
                  phone_data[j]["Total_Score"] = res[3].Total_Score

(* C6: a successful response has count = length of results = min(3, number
   of candidates); when neither the category filter nor the fallback filter
   selects a record, the response is {count: 0, results: []}, not an
   error. *)
C6_ResultSize ==
    \A s \in DOMAIN reqs :
        Completed(reqs[s]) =>
            LET r == reqs[s]
                C == Candidates(phone_data, r.budget)
            IN  /\ r.response.status = "ok" =>
                      /\ r.response.count = Len(r.response.results)
                      /\ Len(r.response.results) = Min(3, Cardinality(C))
                /\ C = {} =>
                      r.response = [status |-> "ok", count |-> 0, results |-> <<>>]

(* C7: if a candidate has a rating that is no number, the request fails,
   whatever the priorities and wherever the candidate would rank. *)
C7_NonNumericAborts ==
    \A s \in DOMAIN reqs :
        (/\ Completed(reqs[s])
         /\ \E i \in Candidates(phone_data, reqs[s].budget) :
               \E k \in DOMAIN RatingKeys : ~Numeric(phone_data[i][RatingKeys[k]]))
        => reqs[s].response.status = "error"

(* C8: in a successful response, if the category of the first candidate in
   catalog order is falsy every Budget is "Mid-Range (Fallback)"; otherwise
   every Budget is the record's own stored category. *)
C8_BatchLabel ==
    \A s \in DOMAIN reqs :
        (Done(reqs[s]) /\ reqs[s].response.count > 0) =>
            LET r == reqs[s]
                first == phone_data[r.filtered_phones[1]]
            IN  \A k \in DOMAIN r.response.results :
                    r.response.results[k].Budget =
                        IF Truthy(first["Category"])
                        THEN phone_data[r.sorted_phones[k]]["Category"]
                        ELSE FallbackLabel

(* C8 witness: the first candidate's category is falsy and a returned record
   whose own category is not carries the fallback label. *)
C8_Witness ==
    \E s \in DOMAIN reqs :
        LET r == reqs[s]
        IN  /\ Done(r)
            /\ r.response.count > 1
            /\ ~Truthy(phone_data[r.filtered_phones[1]]["Category"])
            /\ \E k \in DOMAIN r.sorted_phones :
                  /\ Truthy(phone_data[r.sorted_phones[k]]["Category"])
                  /\ r.response.results[k].Budget = FallbackLabel

(* C8 third witness case: the first candidate's category is truthy and a
   returned record echoes its own, empty category. *)
C8_WitnessEmptyOwn ==
    \E s \in DOMAIN reqs :
        LET r == reqs[s]
        IN  /\ Done(r)
            /\ r.response.count > 0
            /\ Truthy(phone_data[r.filtered_phones[1]]["Category"])
            /\ \E k \in DOMAIN r.response.results :
                  r.response.results[k].Budget = StrCat(<<>>)

(* C8 second witness case: first candidate truthy, own categories echoed
   unmodified (with their blanks and capitals). *)
C8_WitnessOwn ==
    \E s \in DOMAIN reqs :
        LET r == reqs[s]
        IN  /\ Done(r)
            /\ \E k \in DOMAIN r.response.results :
                  r.response.results[k].Budget = StrCat(<<" ", "A">>)

(* C9: every Budget of a successful response is a category equal to the
   requested budget after trimming and lower-casing, or the fallback
   marker; a record supplied by the fallback carries the marker. *)
C9_BudgetMatchedOrMarker ==
    \A s \in DOMAIN reqs :
        Done(reqs[s]) =>
            \A k \in DOMAIN reqs[s].response.results :
                LET b == reqs[s].response.results[k].Budget
                IN  \/ b = FallbackLabel
                    \/ Lower(Strip(Str(b))) = Lower(Strip(reqs[s].budget))

(* C10: a request that was in flight together with another one answers as
   it would have answered alone. *)
C10_NoConcurrentLeak ==
    \A s \in DOMAIN reqs :
        (Completed(reqs[s]) /\ reqs[s].overlap) =>
            SameOutcome(reqs[s],
                        Alone(phone_data, reqs[s].budget, reqs[s].priorities))

(* C10 witness: two requests with different priorities were in flight
   together over the same candidates and have both answered, in different
   orders. *)
C10_Witness ==
    /\ DOMAIN reqs = {1, 2}
    /\ \A s \in DOMAIN reqs : Done(reqs[s]) /\ reqs[s].overlap
    /\ reqs[1].priorities # reqs[2].priorities
    /\ reqs[1].filtered_phones = reqs[2].filtered_phones
    /\ reqs[1].sorted_phones # reqs[2].sorted_phones

====
